---- MODULE Spec2Model ----
(***************************************************************************)
(* State-machine model of the SSM-SAM training / evaluation scripts:       *)
(*   train.py  main (epoch loop, CSV log, checkpoints, validation)         *)
(*   test.py   __main__ and eval_psnr (threshold sweep, test_log.csv)      *)
(*   test.py   batched_predict (chunked query loop)                        *)
(* One behaviour is one process run; prog says which script runs.          *)
(***************************************************************************)
EXTENDS Integers, Sequences, FiniteSets, TLC

\* ------------------------------------------------------------ bounds
MaxEpoch == 2
MaxEpochVal == 2
MaxLoss == 1
MaxMetric == 1
MaxN == 5
MaxBsize == 3

\* ------------------------------------------------- program constants
\* best_loss = 1e8
BestLossInit == 100000000
\* max_val_v = 1e8 when eval_type is 'ber'
MaxValInitBer == 100000000
\* max_val_v = -1e18 otherwise, held as <<MaxValInitHi, 0>>: -1e18 = MaxValInitHi * 10^9
MaxValInitHi == -1000000000
\* for threshold in range(10, 255, 10)
ThresholdStart == 10
ThresholdStop == 255
ThresholdStep == 10

VARIABLES
    prog,          \* which script this process runs
    config,        \* the loaded YAML config (read-only after load)
    pc,            \* position in the script
    fault,         \* the uncaught exception that ended the process, or "none"
    epoch_start,   \* train.py: first epoch of the run
    it,            \* train.py: next value of range(epoch_start, epoch_max + 1)
    epoch,         \* train.py: loop variable (None before the first iteration)
    max_val_v,     \* train.py: best validated metric so far
    best_loss,     \* train.py: best mean training loss so far
    train_loss_G,  \* train.py: mean loss of the current epoch
    model_sd,      \* train.py: model parameters, named by the epoch that trained them
    sched_steps,   \* train.py: number of lr_scheduler.step() calls
    training_log,  \* ./save/training_log.csv, a sequence of rows
    log0,          \* rows training_log.csv held when the process started
    files,         \* checkpoint files under save_path: file name -> content
    save_calls,    \* history of save() calls
    val_hist,      \* history of eval_psnr() results in train.py
    train_hist,    \* history of completed train() calls
    entered,       \* history of the values the loop variable took
    metric_tab,    \* test.py: what metric_fn computes on this run's predictions
    ti,            \* test.py: position in range(10, 255, 10)
    results,       \* test.py: eval_psnr's result1..result4
    applied,       \* test.py: history of metric_fn applications
    metrics,       \* test.py: metric1..metric4 of __main__
    printed,       \* test.py: the values printed, in order
    test_epoch,    \* test.py: epoch = config['resume']
    test_log,      \* ./save/test_log.csv, a sequence of rows
    tlog0,         \* rows test_log.csv held when the process started
    ql,            \* batched_predict: left end of the next slice
    qr,            \* batched_predict: right end of the current slice
    preds,         \* batched_predict: one entry per model.query_rgb call
    pred           \* batched_predict: torch.cat(preds, dim=1)

trainVars == <<epoch_start, it, epoch, max_val_v, best_loss, train_loss_G, model_sd,
               sched_steps, training_log, log0, files, save_calls, val_hist,
               train_hist, entered>>
testVars == <<metric_tab, ti, results, applied, metrics, printed, test_epoch,
              test_log, tlog0>>
batchVars == <<ql, qr, preds, pred>>

vars == <<prog, config, pc, fault, trainVars, testVars, batchVars>>

\* ------------------------------------------------------ Python values
None == [tag |-> "none"]
Missing == [tag |-> "missing"]
PyInt(v) == [tag |-> "int", v |-> v]
PyStr(s) == [tag |-> "str", v |-> s]

\* dict.get(key): a missing key reads as None
Get(x) == IF x = Missing THEN None ELSE x

\* A float that may be as small as -1e18: <<hi, lo>> stands for hi * 10^9 + lo,
\* 0 <= lo < 10^9.
Wide(v) == <<0, v>>
WideLt(a, b) == a[1] < b[1] \/ (a[1] = b[1] /\ a[2] < b[2])

Losses == 0..MaxLoss
Metrics == {Wide(v) : v \in 0..MaxMetric}

\* ------------------------------------------------------------ config
ValidEvalTypes == {"f1", "fmeasure", "ber", "cod", "dice"}
EvalTypeVals == {PyStr(s) : s \in ValidEvalTypes \cup {"psnr"}} \cup {None, Missing}
ModelNames == {"segformer", "setr", "sam"}
EncoderModes == {"evp", "vpt"}

TrainConfigs ==
    [resume : {None} \cup {PyInt(k) : k \in 0..MaxEpoch},
     epoch_max : 0..MaxEpoch,
     epoch_val : {None} \cup {PyInt(k) : k \in 0..MaxEpochVal},
     eval_type : EvalTypeVals,
     model_name : ModelNames,
     encoder_mode : EncoderModes]

\* rows a previous run may have left in ./save/training_log.csv
PriorTrainingLogs == {<< >>, << <<1, 0>> >>}

\* -------------------------------------------------- eval_psnr helpers
\* faulty variant: a chain that ends in a default
SelectMetricFn_Default(eval_type) ==
    IF eval_type = PyStr("fmeasure") THEN "calc_fmeasure"
    ELSE IF eval_type = PyStr("ber") THEN "calc_ber"
    ELSE IF eval_type = PyStr("cod") THEN "calc_cod"
    ELSE IF eval_type = PyStr("dice") THEN "cal_dice_iou"
    ELSE "calc_f1"

\* the if/elif chain selecting metric_fn; no else branch: the name stays unbound
SelectMetricFn(eval_type) ==
    IF eval_type = PyStr("f1") THEN "calc_f1"
    ELSE IF eval_type = PyStr("fmeasure") THEN "calc_fmeasure"
    ELSE IF eval_type = PyStr("ber") THEN "calc_ber"
    ELSE IF eval_type = PyStr("cod") THEN "calc_cod"
    ELSE IF eval_type = PyStr("dice") THEN "cal_dice_iou"
    ELSE "unbound"

\* ------------------------------------------------------------- save()
FileName(prefix, name) == <<prefix, name, ".pth">>

\* faulty variant: the prompt file chosen by the encoder mode alone
SaveTarget_ModeOnly(cfg, m, name) ==
    IF cfg.encoder_mode = "evp"
    THEN [file |-> FileName("prompt_epoch_", name),
          content |-> [prompt |-> m, decode_head |-> m]]
    ELSE [file |-> FileName("model_epoch_", name),
          content |-> [state_dict |-> m]]

SaveTarget(cfg, m, name) ==
    IF cfg.model_name = "segformer" \/ cfg.model_name = "setr"
    THEN IF cfg.encoder_mode = "evp"
         THEN [file |-> FileName("prompt_epoch_", name),
               content |-> [prompt |-> m, decode_head |-> m]]
         ELSE [file |-> FileName("model_epoch_", name),
               content |-> [state_dict |-> m]]
    ELSE [file |-> FileName("model_epoch_", name),
          content |-> [state_dict |-> m]]

\* torch.save: creates the file or overwrites it in place
TorchSave(fs, file, content) ==
    [f \in DOMAIN fs \cup {file} |-> IF f = file THEN content ELSE fs[f]]

Save(cfg, m, name) ==
    LET t == SaveTarget(cfg, m, name) IN
    /\ files' = TorchSave(files, t.file, t.content)
    /\ save_calls' = Append(save_calls, [name |-> name, file |-> t.file,
                                         epoch |-> epoch, model |-> m])

\* ------------------------------------------------------------- train.py
\* values of the variables a script does not use
IdleTrain ==
    /\ epoch_start = None /\ it = None /\ epoch = None /\ max_val_v = None
    /\ best_loss = None /\ train_loss_G = None /\ model_sd = 0 /\ sched_steps = 0
    /\ training_log = << >> /\ log0 = << >> /\ files = << >>
    /\ save_calls = << >> /\ val_hist = << >>
    /\ train_hist = << >> /\ entered = << >>

IdleTest ==
    /\ metric_tab = None /\ ti = 0 /\ results = None /\ applied = << >>
    /\ metrics = None /\ printed = << >> /\ test_epoch = None
    /\ test_log = << >> /\ tlog0 = << >>

IdleBatch == ql = 0 /\ qr = 0 /\ preds = << >> /\ pred = None

InitTrain ==
    /\ prog = "train"
    /\ config \in TrainConfigs
    /\ pc = "prepare"
    /\ fault = "none"
    /\ epoch_start = None
    /\ it = None
    /\ epoch = None
    /\ max_val_v = None
    /\ best_loss = None
    /\ train_loss_G = None
    /\ model_sd = 0
    /\ sched_steps = 0
    /\ log0 \in PriorTrainingLogs
    /\ training_log = log0
    /\ files = << >>
    /\ save_calls = << >>
    /\ val_hist = << >>
    /\ train_hist = << >>
    /\ entered = << >>
    /\ IdleTest /\ IdleBatch

\* prepare_training
EpochStart(cfg) ==
    IF Get(cfg.resume) # None THEN Get(cfg.resume).v + 1 ELSE 1

\* max_val_v = -1e18 if config['eval_type'] != 'ber' else 1e8
MaxValInit(cfg) ==
    IF cfg.eval_type # PyStr("ber") THEN <<MaxValInitHi, 0>> ELSE Wide(MaxValInitBer)

\* faulty variant: the 'last' checkpoint written before the row
StepAfter_SaveBeforeLog(p) ==
    CASE p = "train" -> "sched"
      [] p = "sched" -> "save_last"
      [] p = "save_last" -> "log"
      [] p = "log" -> "check_loss"
      [] p = "check_loss" -> "check_val"
      [] p = "check_val" -> "eval"
      [] p = "eval" -> "loop"

\* the statements of one loop iteration, in source order: what follows what
StepAfter(p) ==
    CASE p = "train" -> "sched"
      [] p = "sched" -> "log"
      [] p = "log" -> "save_last"
      [] p = "save_last" -> "check_loss"
      [] p = "check_loss" -> "check_val"
      [] p = "check_val" -> "eval"
      [] p = "eval" -> "loop"

\* main, up to the loop: prepare_training, then the initial bests
Prepare ==
    /\ prog = "train" /\ pc = "prepare"
    /\ epoch_start' = EpochStart(config)
    /\ it' = EpochStart(config)
    /\ IF config.eval_type = Missing
       THEN /\ pc' = "fault" /\ fault' = "KeyError"
            /\ UNCHANGED <<max_val_v, best_loss>>
       ELSE /\ pc' = "loop" /\ fault' = fault
            /\ max_val_v' = MaxValInit(config)
            /\ best_loss' = BestLossInit
    /\ UNCHANGED <<prog, config, epoch, train_loss_G, model_sd, sched_steps,
                   training_log, log0, files, save_calls, val_hist, train_hist,
                   entered>>
    /\ UNCHANGED <<testVars, batchVars>>

\* faulty variant: an inclusive stop
RangeHasNext_Inclusive(i, stop) == i <= stop

\* for epoch in range(epoch_start, epoch_max + 1)
RangeHasNext(i, stop) == i < stop

LoopHead ==
    /\ prog = "train" /\ pc = "loop"
    /\ IF RangeHasNext(it, config.epoch_max + 1)
       THEN /\ epoch' = it /\ it' = it + 1 /\ pc' = "train"
            /\ entered' = Append(entered, it)
       ELSE /\ pc' = "done" /\ UNCHANGED <<epoch, it, entered>>
    /\ UNCHANGED <<prog, config, fault, epoch_start, max_val_v, best_loss,
                   train_loss_G, model_sd, sched_steps, training_log, log0,
                   files, save_calls, val_hist, train_hist>>
    /\ UNCHANGED <<testVars, batchVars>>

\* train_loss_G = train(train_loader, model, loss_mode): updates the model,
\* returns the mean batch loss
Train ==
    /\ prog = "train" /\ pc = "train"
    /\ \E loss \in Losses :
         /\ train_loss_G' = loss
         /\ train_hist' = Append(train_hist, [epoch |-> epoch, loss |-> loss])
    /\ model_sd' = epoch
    /\ pc' = StepAfter(pc)
    /\ UNCHANGED <<prog, config, fault, epoch_start, it, epoch, max_val_v, best_loss,
                   sched_steps, training_log, log0, files, save_calls, val_hist,
                   entered>>
    /\ UNCHANGED <<testVars, batchVars>>

\* train() raising (a framework fault): nothing catches it
TrainFault ==
    /\ prog = "train" /\ pc = "train"
    /\ pc' = "fault" /\ fault' = "train"
    /\ UNCHANGED <<prog, config, trainVars, testVars, batchVars>>

\* lr_scheduler.step()
SchedStep ==
    /\ prog = "train" /\ pc = "sched"
    /\ sched_steps' = sched_steps + 1
    /\ pc' = StepAfter(pc)
    /\ UNCHANGED <<prog, config, fault, epoch_start, it, epoch, max_val_v, best_loss,
                   train_loss_G, model_sd, training_log, log0, files, save_calls,
                   val_hist, train_hist, entered>>
    /\ UNCHANGED <<testVars, batchVars>>

\* faulty variant: the file opened with 'w'
WriteRow_Truncating(log, row) == <<row>>

\* open(..., 'a'); csv_writer.writerow(row)
WriteRow(log, row) == Append(log, row)

AppendRow ==
    /\ prog = "train" /\ pc = "log"
    /\ training_log' = WriteRow(training_log, <<epoch, train_loss_G>>)
    /\ pc' = StepAfter(pc)
    /\ UNCHANGED <<prog, config, fault, epoch_start, it, epoch, max_val_v, best_loss,
                   train_loss_G, model_sd, sched_steps, log0, files, save_calls,
                   val_hist, train_hist, entered>>
    /\ UNCHANGED <<testVars, batchVars>>

\* save(config, model, save_path, 'last')
SaveLast ==
    /\ prog = "train" /\ pc = "save_last"
    /\ Save(config, model_sd, "last")
    /\ pc' = StepAfter(pc)
    /\ UNCHANGED <<prog, config, fault, epoch_start, it, epoch, max_val_v, best_loss,
                   train_loss_G, model_sd, sched_steps, training_log, log0,
                   val_hist, train_hist, entered>>
    /\ UNCHANGED <<testVars, batchVars>>

\* faulty variant: <= in place of <
LossImproved_NonStrict(loss, best) == loss <= best

\* if train_loss_G < best_loss
LossImproved(loss, best) == loss < best

CheckLoss ==
    /\ prog = "train" /\ pc = "check_loss"
    /\ IF LossImproved(train_loss_G, best_loss)
       THEN /\ best_loss' = train_loss_G
            /\ Save(config, model_sd, "best_loss")
       ELSE UNCHANGED <<best_loss, files, save_calls>>
    /\ pc' = StepAfter(pc)
    /\ UNCHANGED <<prog, config, fault, epoch_start, it, epoch, max_val_v,
                   train_loss_G, model_sd, sched_steps, training_log, log0,
                   val_hist, train_hist, entered>>
    /\ UNCHANGED <<testVars, batchVars>>

\* if epoch_val is not None: if epoch % epoch_val == 0
ValDue(e, ev) == e % ev = 0

CheckVal ==
    /\ prog = "train" /\ pc = "check_val"
    /\ IF Get(config.epoch_val) = None
       THEN pc' = "loop" /\ fault' = fault
       ELSE IF Get(config.epoch_val).v = 0
            THEN pc' = "fault" /\ fault' = "ZeroDivisionError"
            ELSE IF ValDue(epoch, Get(config.epoch_val).v)
                 THEN pc' = StepAfter(pc) /\ fault' = fault
                 ELSE pc' = "loop" /\ fault' = fault
    /\ UNCHANGED <<prog, config, trainVars, testVars, batchVars>>

\* faulty variant: >= and <= in place of > and <
ValImproved_NonStrict(cfg, r1, r3, best) ==
    IF cfg.eval_type # PyStr("ber") THEN ~WideLt(r1, best) ELSE ~WideLt(best, r3)

\* if result1 > max_val_v   /   if result3 < max_val_v
ValImproved(cfg, r1, r3, best) ==
    IF cfg.eval_type # PyStr("ber") THEN WideLt(best, r1) ELSE WideLt(r3, best)

\* max_val_v = result1   /   max_val_v = result3
ValMetric(cfg, r1, r3) == IF cfg.eval_type # PyStr("ber") THEN r1 ELSE r3

\* the metric a validation is judged by (the other results are only logged)
Judged(cfg, r1, r3) == IF cfg.eval_type = PyStr("ber") THEN r3 ELSE r1

\* eval_psnr(val_loader, model, eval_type=config.get('eval_type')), where
\* metric_fn(pred_list, gt_list) raises when no branch bound metric_fn, then
\* the comparison with max_val_v and save(..., 'best')
Validate ==
    /\ prog = "train" /\ pc = "eval"
    /\ IF SelectMetricFn(Get(config.eval_type)) = "unbound"
       THEN /\ pc' = "fault" /\ fault' = "UnboundLocalError"
            /\ UNCHANGED <<max_val_v, files, save_calls, val_hist>>
       ELSE \E r1 \in Metrics, r3 \in Metrics :
            /\ val_hist' = Append(val_hist, [epoch |-> epoch, model |-> model_sd,
                                             metric |-> Judged(config, r1, r3)])
            /\ IF ValImproved(config, r1, r3, max_val_v)
               THEN /\ max_val_v' = ValMetric(config, r1, r3)
                    /\ Save(config, model_sd, "best")
               ELSE UNCHANGED <<max_val_v, files, save_calls>>
            /\ pc' = StepAfter(pc) /\ fault' = fault
    /\ UNCHANGED <<prog, config, epoch_start, it, epoch, best_loss, train_loss_G,
                   model_sd, sched_steps, training_log, log0, train_hist, entered>>
    /\ UNCHANGED <<testVars, batchVars>>

NextTrain ==
    \/ Prepare
    \/ LoopHead
    \/ Train
    \/ TrainFault
    \/ SchedStep
    \/ AppendRow
    \/ SaveLast
    \/ CheckLoss
    \/ CheckVal
    \/ Validate

\* -------------------------------------------------------------- test.py
\* range(start, stop, step) for step > 0, as the sequence it iterates over
PyRangeLen(start, stop, step) ==
    IF stop <= start THEN 0 ELSE (stop - start + step - 1) \div step

PyRange(start, stop, step) ==
    [i \in 1..PyRangeLen(start, stop, step) |-> start + (i - 1) * step]

\* faulty variant: range(10, 250, 10)
Thresholds_StopEarly == PyRange(ThresholdStart, ThresholdStop - 5, ThresholdStep)

\* for threshold in range(10, 255, 10)
Thresholds == PyRange(ThresholdStart, ThresholdStop, ThresholdStep)

\* metric_fn is external: on the run's fixed predictions and ground truth it is
\* some function of the threshold. The runs draw it from the step functions:
\* below the cut it yields lo, from the cut on it yields hi.
MetricTabs ==
    [cut : {Thresholds[i] : i \in DOMAIN Thresholds},
     lo : 0..MaxMetric,
     hi : 0..MaxMetric]

MetricFn(tab, threshold) ==
    IF threshold < tab.cut
    THEN <<tab.lo, tab.hi, tab.lo, tab.hi>>
    ELSE <<tab.hi, tab.lo, tab.hi, tab.lo>>

TestConfigs ==
    [resume : {Missing, None} \cup {PyInt(k) : k \in 0..MaxEpoch},
     eval_type : EvalTypeVals]

\* rows earlier runs may have left in ./save/test_log.csv
PriorTestLogs == {<< >>, << <<PyInt(1), 0, 0, 0, 0>> >>}

InitTest ==
    /\ prog = "test"
    /\ config \in TestConfigs
    /\ pc = "eval"
    /\ fault = "none"
    /\ metric_tab \in MetricTabs
    /\ ti = 0
    /\ results = None
    /\ applied = << >>
    /\ metrics = None
    /\ printed = << >>
    /\ test_epoch = None
    /\ tlog0 \in PriorTestLogs
    /\ test_log = tlog0
    /\ IdleTrain /\ IdleBatch

\* eval_psnr up to the threshold loop: the if/elif chain, the loader loop,
\* torch.cat; the range iterator is created
TestEvalBegin ==
    /\ prog = "test" /\ pc = "eval"
    /\ ti' = 1
    /\ pc' = "sweep"
    /\ UNCHANGED <<prog, config, fault, metric_tab, results, applied, metrics,
                   printed, test_epoch, test_log, tlog0>>
    /\ UNCHANGED <<trainVars, batchVars>>

\* one iteration: result1..result4 = metric_fn(pred_list, gt_list, threshold)
TestThreshold ==
    /\ prog = "test" /\ pc = "sweep"
    /\ ti <= Len(Thresholds)
    /\ IF SelectMetricFn(Get(config.eval_type)) = "unbound"
       THEN /\ pc' = "fault" /\ fault' = "UnboundLocalError"
            /\ UNCHANGED <<ti, results, applied>>
       ELSE /\ results' = MetricFn(metric_tab, Thresholds[ti])
            /\ applied' = Append(applied, [threshold |-> Thresholds[ti],
                                           fn |-> SelectMetricFn(Get(config.eval_type)),
                                           value |-> MetricFn(metric_tab, Thresholds[ti])])
            /\ ti' = ti + 1
            /\ pc' = pc /\ fault' = fault
    /\ UNCHANGED <<prog, config, metric_tab, metrics, printed, test_epoch,
                   test_log, tlog0>>
    /\ UNCHANGED <<trainVars, batchVars>>

\* the loop ends; return result1, result2, result3, result4
TestReturn ==
    /\ prog = "test" /\ pc = "sweep"
    /\ ti > Len(Thresholds)
    /\ IF results = None
       THEN /\ pc' = "fault" /\ fault' = "UnboundLocalError"
            /\ UNCHANGED metrics
       ELSE /\ metrics' = results
            /\ pc' = "print" /\ fault' = fault
    /\ UNCHANGED <<prog, config, metric_tab, ti, results, applied, printed,
                   test_epoch, test_log, tlog0>>
    /\ UNCHANGED <<trainVars, batchVars>>

\* the four print('metricN: {:.4f}'.format(metricN))
TestPrint ==
    /\ prog = "test" /\ pc = "print"
    /\ printed' = metrics
    /\ pc' = "resume"
    /\ UNCHANGED <<prog, config, fault, metric_tab, ti, results, applied, metrics,
                   test_epoch, test_log, tlog0>>
    /\ UNCHANGED <<trainVars, batchVars>>

\* faulty variant: epoch = config.get('resume')
TestReadResume_Get ==
    /\ prog = "test" /\ pc = "resume"
    /\ test_epoch' = Get(config.resume)
    /\ pc' = "write" /\ fault' = fault
    /\ UNCHANGED <<prog, config, metric_tab, ti, results, applied, metrics, printed,
                   test_log, tlog0>>
    /\ UNCHANGED <<trainVars, batchVars>>

\* epoch = config['resume']
TestReadResume ==
    /\ prog = "test" /\ pc = "resume"
    /\ IF config.resume = Missing
       THEN /\ pc' = "fault" /\ fault' = "KeyError"
            /\ UNCHANGED test_epoch
       ELSE /\ test_epoch' = config.resume
            /\ pc' = "write" /\ fault' = fault
    /\ UNCHANGED <<prog, config, metric_tab, ti, results, applied, metrics, printed,
                   test_log, tlog0>>
    /\ UNCHANGED <<trainVars, batchVars>>

\* open('./save/test_log.csv', 'a'); writerow([epoch, metric1, ..., metric4])
TestWriteRow ==
    /\ prog = "test" /\ pc = "write"
    /\ test_log' = WriteRow(test_log, <<test_epoch, metrics[1], metrics[2],
                                        metrics[3], metrics[4]>>)
    /\ pc' = "done"
    /\ UNCHANGED <<prog, config, fault, metric_tab, ti, results, applied, metrics,
                   printed, test_epoch, tlog0>>
    /\ UNCHANGED <<trainVars, batchVars>>

NextTest ==
    \/ TestEvalBegin
    \/ TestThreshold
    \/ TestReturn
    \/ TestPrint
    \/ TestReadResume
    \/ TestWriteRow

\* ------------------------------------------------------ batched_predict
MaxCalls == MaxN + 2

BatchConfigs == [n : 0..MaxN, bsize : 0..MaxBsize]

InitBatched ==
    /\ prog = "batched"
    /\ config \in BatchConfigs
    /\ pc = "while"
    /\ fault = "none"
    /\ ql = 0
    /\ qr = 0
    /\ preds = << >>
    /\ pred = None
    /\ IdleTrain /\ IdleTest

Min(a, b) == IF a < b THEN a ELSE b

\* coord[:, ql: qr, :] as the coordinate indices it holds
Slice(l, r) == [i \in 1..(r - l) |-> l + i - 1]

\* faulty variant: qr = ql + bsize
NextQr_NoClamp(l, bsize, n) == l + bsize

\* qr = min(ql + bsize, n)
NextQr(l, bsize, n) == Min(l + bsize, n)

\* one iteration of `while ql < n` (a run that never leaves the loop is cut
\* off after MaxCalls iterations)
BatchedIter ==
    /\ prog = "batched" /\ pc = "while"
    /\ ql < config.n
    /\ Len(preds) < MaxCalls
    /\ qr' = NextQr(ql, config.bsize, config.n)
    /\ preds' = Append(preds, Slice(ql, qr'))
    /\ ql' = qr'
    /\ UNCHANGED <<prog, config, pc, fault, pred>>
    /\ UNCHANGED <<trainVars, testVars>>

RECURSIVE Cat(_)
Cat(ss) == IF ss = << >> THEN << >> ELSE Head(ss) \o Cat(Tail(ss))

\* the loop exit and pred = torch.cat(preds, dim=1), which raises on an empty list
BatchedExit ==
    /\ prog = "batched" /\ pc = "while"
    /\ ~(ql < config.n)
    /\ IF preds = << >>
       THEN /\ pc' = "fault" /\ fault' = "RuntimeError"
            /\ UNCHANGED pred
       ELSE /\ pred' = Cat(preds)
            /\ pc' = "done" /\ fault' = fault
    /\ UNCHANGED <<prog, config, ql, qr, preds>>
    /\ UNCHANGED <<trainVars, testVars>>

NextBatched ==
    \/ BatchedIter
    \/ BatchedExit

\* ------------------------------------------------------- specification
Init == InitTrain \/ InitTest \/ InitBatched

Next == NextTrain \/ NextTest \/ NextBatched

Spec == Init /\ [][Next]_vars

\* ============================================================== claims
Terminal == pc \in {"done", "fault"}

IsPrefix(a, b) == Len(a) <= Len(b) /\ SubSeq(b, 1, Len(a)) = a

\* a <= b as sequences extended by at most one element
AppendedAtMostOne(a, b) == b = a \/ (Len(b) = Len(a) + 1 /\ SubSeq(b, 1, Len(a)) = a)

\* the rows this run appended to training_log.csv
RunRows == SubSeq(training_log, Len(log0) + 1, Len(training_log))

\* the epochs a, a+1, ..., b in order (none when a > b)
EpochRange(a, b) == [i \in 1..(IF b >= a THEN b - a + 1 ELSE 0) |-> a + i - 1]

\* the save() calls made under a checkpoint name, in order
RECURSIVE SavesOf(_, _)
SavesOf(calls, name) ==
    IF calls = << >> THEN << >>
    ELSE IF Head(calls).name = name
         THEN <<Head(calls)>> \o SavesOf(Tail(calls), name)
         ELSE SavesOf(Tail(calls), name)

\* completed train() calls whose row is due: the row of the current epoch is
\* pending between train() returning and the writerow
RowsDue ==
    IF pc \in {"sched", "log"} THEN Len(train_hist) - 1 ELSE Len(train_hist)

C1_State ==
    prog = "train" =>
        /\ IsPrefix(log0, training_log)
        /\ Len(RunRows) = RowsDue
        /\ \A i \in 1..Len(RunRows) :
              /\ RunRows[i] = <<train_hist[i].epoch, train_hist[i].loss>>
              /\ RunRows[i][1] = epoch_start + i - 1

C1_Step == AppendedAtMostOne(training_log, training_log')

\* C1: training_log.csv is append-only. Every step leaves the file as it was or
\* appends one row; the rows the file held at start stay in place; the rows of
\* this run are exactly one row [epoch, mean loss] per completed train() call,
\* with epochs epoch_start, epoch_start + 1, ... in order.
C1_AppendOnlyLog == [](C1_State) /\ [][C1_Step]_vars

C1_Witness ==
    /\ prog = "train" /\ log0 # << >> /\ Len(RunRows) = 2
    /\ RunRows[1][1] = 1 /\ RunRows[2][1] = 2

\* progress measure of the epoch loop: iterations left, then statements left
PcRank ==
    CASE pc = "train" -> 8
      [] pc = "sched" -> 7
      [] pc = "log" -> 6
      [] pc = "save_last" -> 5
      [] pc = "check_loss" -> 4
      [] pc = "check_val" -> 3
      [] pc = "eval" -> 2
      [] pc = "loop" -> 1
      [] OTHER -> 0

TrainMeasure ==
    IF pc = "prepare" THEN (config.epoch_max + 2) * 10
    ELSE (IF it <= config.epoch_max THEN config.epoch_max + 1 - it ELSE 0) * 10 + PcRank

C2_State ==
    (prog = "train" /\ pc # "prepare") =>
        /\ epoch_start = (IF config.resume # None THEN config.resume.v + 1 ELSE 1)
        /\ IsPrefix(entered, EpochRange(epoch_start, config.epoch_max))
        /\ (pc = "done" => entered = EpochRange(epoch_start, config.epoch_max))
        /\ (~Terminal => ENABLED Next)
        /\ (epoch_start > config.epoch_max =>
               /\ entered = << >> /\ train_hist = << >>
               /\ training_log = log0
               /\ files = << >> /\ save_calls = << >>)

\* C2: the loop runs the epochs epoch_start .. epoch_max in increasing order,
\* each once, and then ends (every step lowers a bounded measure, and a run
\* that has not ended can step); epoch_start is resume + 1 for a non-null
\* resume and 1 otherwise; with epoch_start > epoch_max nothing runs, is logged
\* or saved. A run cut short by an uncaught fault ran a prefix of the epochs.
C2_EpochLoop ==
    [](C2_State) /\ [][prog = "train" => TrainMeasure' < TrainMeasure]_vars

C2_Witness ==
    /\ prog = "train" /\ pc = "done"
    /\ config.resume = PyInt(0) /\ entered = <<1, 2>>

\* eval_type is one of the five names eval_psnr knows
EvalTypeListed ==
    config.eval_type \in {PyStr("f1"), PyStr("fmeasure"), PyStr("ber"),
                          PyStr("cod"), PyStr("dice")}

C3_State ==
    /\ (prog = "train" /\ ~EvalTypeListed) =>
          /\ val_hist = << >>
          /\ SavesOf(save_calls, "best") = << >>
          /\ \A f \in DOMAIN files : f[2] # "best"
    /\ (prog = "train" /\ fault = "UnboundLocalError") =>
          /\ ~EvalTypeListed /\ pc = "fault"
          /\ config.epoch_val # None /\ config.epoch_val.v > 0
          /\ epoch % config.epoch_val.v = 0
          /\ \A e \in epoch_start..(epoch - 1) : e % config.epoch_val.v # 0
          /\ RunRows # << >> /\ Len(RunRows) = Len(entered)
          /\ RunRows[Len(RunRows)] = <<epoch, train_loss_G>>
          /\ LET lasts == SavesOf(save_calls, "last") IN
                /\ Len(lasts) = Len(entered)
                /\ lasts[Len(lasts)].epoch = epoch
                /\ lasts[Len(lasts)].model = epoch
    /\ (prog = "train" /\ EvalTypeListed) => fault # "UnboundLocalError"
    /\ (prog = "test" /\ ~EvalTypeListed) =>
          /\ pc \in {"eval", "sweep", "fault"}
          /\ applied = << >> /\ metrics = None /\ printed = << >>
          /\ test_log = tlog0
    /\ (prog = "test" /\ EvalTypeListed) => fault # "UnboundLocalError"
    /\ (pc = "fault") => (fault # "none" /\ ~ENABLED Next)

C3_Step ==
    /\ (prog = "train" /\ pc = "eval" /\ ~EvalTypeListed) =>
          (pc' = "fault" /\ fault' = "UnboundLocalError")
    /\ (prog = "test" /\ pc = "sweep" /\ ~EvalTypeListed) =>
          (pc' = "fault" /\ fault' = "UnboundLocalError")

\* C3: with an eval_type outside 'f1', 'fmeasure', 'ber', 'cod', 'dice'
\* eval_psnr yields no result: its step is a fault, and a faulted process takes
\* no further step. In train.py the fault comes in the first validated epoch,
\* after that epoch's row and 'last' checkpoint were written, and no 'best'
\* checkpoint is ever written; in test.py nothing is printed or appended to
\* test_log.csv. With a listed eval_type this fault never occurs.
C3_UnselectedMetricFaults == [](C3_State) /\ [][C3_Step]_vars

C3_Witness ==
    /\ prog = "train" /\ fault = "UnboundLocalError"
    /\ epoch = 2 /\ entered = <<1, 2>>
    /\ Len(SavesOf(save_calls, "best_loss")) = 1

TestRank ==
    CASE pc = "eval" -> Len(Thresholds) + 6
      [] pc = "sweep" -> Len(Thresholds) + 5 - ti
      [] pc = "print" -> 3
      [] pc = "resume" -> 2
      [] pc = "write" -> 1
      [] OTHER -> 0

C4_State ==
    prog = "test" =>
        /\ (pc # "done" => test_log = tlog0)
        /\ (pc = "done" =>
               /\ config.resume # Missing
               /\ test_log = Append(tlog0, <<config.resume, metrics[1], metrics[2],
                                             metrics[3], metrics[4]>>)
               /\ Len(applied) = Len(Thresholds)
               /\ metrics = results
               /\ printed = metrics)
        /\ (pc = "write" => printed = metrics /\ Len(applied) = Len(Thresholds))
        /\ (config.resume = Missing => pc # "done")
        /\ ((EvalTypeListed /\ config.resume # Missing) => pc # "fault")
        /\ (~Terminal => ENABLED Next)

C4_Step ==
    prog = "test" =>
        /\ AppendedAtMostOne(test_log, test_log')
        /\ TestRank' < TestRank

\* C4: a test run appends exactly one row [resume, metric1..metric4] to
\* test_log.csv, as its last step, after the evaluation finished and the four
\* metrics were printed; until then, and in every run that faults (a config
\* without the resume key among them), test_log.csv is as it was at start.
\* A run with a listed eval_type and a resume key does not fault and ends.
C4_TestLogRow == [](C4_State) /\ [][C4_Step]_vars

C4_Witness ==
    /\ prog = "test" /\ pc = "done" /\ tlog0 # << >>
    /\ config.resume = PyInt(2) /\ Len(test_log) = Len(tlog0) + 1

\* the file save() is to write for a checkpoint name
ExpectPrompt ==
    config.model_name \in {"segformer", "setr"} /\ config.encoder_mode = "evp"

ExpectedFile(name) ==
    IF ExpectPrompt THEN <<"prompt_epoch_", name, ".pth">>
    ELSE <<"model_epoch_", name, ".pth">>

ExpectedContent(m) ==
    IF ExpectPrompt THEN [prompt |-> m, decode_head |-> m] ELSE [state_dict |-> m]

\* the last save() call that wrote file f
LastCallTo(f) ==
    LET is == {i \in DOMAIN save_calls : save_calls[i].file = f}
    IN save_calls[CHOOSE i \in is : \A j \in is : j <= i]

C5_State ==
    prog = "train" =>
        /\ \A i \in DOMAIN save_calls :
              /\ save_calls[i].name \in {"last", "best_loss", "best"}
              /\ save_calls[i].file = ExpectedFile(save_calls[i].name)
        /\ DOMAIN files = {save_calls[i].file : i \in DOMAIN save_calls}
        /\ \A f \in DOMAIN files : files[f] = ExpectedContent(LastCallTo(f).model)
        /\ Cardinality(DOMAIN files) <= 3

C5_Step ==
    prog = "train" =>
        IF save_calls' = save_calls THEN files' = files
        ELSE /\ Len(save_calls') = Len(save_calls) + 1
             /\ LET c == save_calls'[Len(save_calls')] IN
                   /\ DOMAIN files' = DOMAIN files \cup {c.file}
                   /\ \A f \in DOMAIN files : f # c.file => files'[f] = files[f]

\* C5: every save() call writes exactly one file and leaves the others as
\* they were: prompt_epoch_<name>.pth, holding the prompt generator and decode
\* head states only, exactly when the model is 'segformer' or 'setr' with
\* encoder mode 'evp', and model_epoch_<name>.pth, holding the full state
\* dict, otherwise. The names are 'last', 'best_loss' and 'best', so a run
\* leaves at most three files, each holding what its last save() wrote.
C5_SaveWritesOneFile == [](C5_State) /\ [][C5_Step]_vars

C5_Witness ==
    /\ prog = "train" /\ ExpectPrompt /\ config.model_name = "setr"
    /\ Cardinality(DOMAIN files) = 3
    /\ Len(SavesOf(save_calls, "last")) = 2

\* the value max_val_v starts from: -1e18, or 1e8 for 'ber'
InitialBest ==
    IF config.eval_type = PyStr("ber") THEN Wide(MaxValInitBer) ELSE <<MaxValInitHi, 0>>

\* a is strictly better than b: greater, or smaller for 'ber'
Better(a, b) ==
    IF config.eval_type = PyStr("ber") THEN WideLt(a, b) ELSE WideLt(b, a)

\* the best of the initial value and the first k validated metrics
RECURSIVE RunningBest(_)
RunningBest(k) ==
    IF k = 0 THEN InitialBest
    ELSE IF Better(val_hist[k].metric, RunningBest(k - 1))
         THEN val_hist[k].metric
         ELSE RunningBest(k - 1)

\* epoch e is over: a later epoch was entered, or the loop is between epochs
EpochOver(e) == e # entered[Len(entered)] \/ pc \in {"loop", "done"}

ValidationDue(e) ==
    /\ config.epoch_val # None
    /\ config.epoch_val.v > 0
    /\ e % config.epoch_val.v = 0

\* positions of val_hist whose metric strictly improved on all before it
Improving == {i \in DOMAIN val_hist : Better(val_hist[i].metric, RunningBest(i - 1))}

\* the elements of a set of positions, as the increasing sequence
RECURSIVE Ascending(_)
Ascending(S) ==
    IF S = {} THEN << >>
    ELSE LET m == CHOOSE x \in S : \A y \in S : x <= y
         IN <<m>> \o Ascending(S \ {m})

C6_State ==
    (prog = "train" /\ pc # "prepare" /\ fault # "KeyError") =>
        /\ [i \in DOMAIN val_hist |-> val_hist[i].epoch]
             = SelectSeq(entered, LAMBDA e : ValidationDue(e) /\ EpochOver(e))
        /\ \A i \in DOMAIN val_hist : val_hist[i].model = val_hist[i].epoch
        /\ (config.epoch_val = None => val_hist = << >>)
        /\ max_val_v = RunningBest(Len(val_hist))
        /\ LET bests == SavesOf(save_calls, "best")
               imp == Ascending(Improving) IN
              /\ Len(bests) = Len(imp)
              /\ \A k \in DOMAIN bests :
                    /\ bests[k].epoch = val_hist[imp[k]].epoch
                    /\ bests[k].model = val_hist[imp[k]].epoch
        /\ (ExpectedFile("best") \in DOMAIN files <=> Improving # {})
        /\ ExpectedFile("best") \in DOMAIN files =>
              LET first == CHOOSE i \in DOMAIN val_hist :
                              /\ val_hist[i].metric = RunningBest(Len(val_hist))
                              /\ \A j \in 1..(i - 1) :
                                    val_hist[j].metric # RunningBest(Len(val_hist))
              IN files[ExpectedFile("best")] = ExpectedContent(val_hist[first].epoch)

\* C6: validation runs in exactly the epochs with epoch % epoch_val = 0 (in
\* none when epoch_val is null); max_val_v is the best validated metric so far
\* (result1 and greater, or result3 and smaller for 'ber'), starting from -1e18
\* (1e8 for 'ber'); 'best' is saved exactly at the validations that strictly
\* improve on it, so the 'best' file holds the model of the earliest validated
\* epoch that attains the best metric value.
C6_BestCheckpoint == C6_State

C6_Witness ==
    /\ prog = "train" /\ pc = "done" /\ config.eval_type = PyStr("ber")
    /\ Len(val_hist) = 2 /\ val_hist[1].metric = val_hist[2].metric
    /\ files[ExpectedFile("best")] = ExpectedContent(1)

\* the minimum of 1e8 and the first k mean training losses
RECURSIVE MinLoss(_)
MinLoss(k) ==
    IF k = 0 THEN BestLossInit
    ELSE IF train_hist[k].loss < MinLoss(k - 1) THEN train_hist[k].loss
         ELSE MinLoss(k - 1)

\* the losses already compared with best_loss
LossesChecked ==
    IF pc \in {"sched", "log", "save_last", "check_loss"}
    THEN Len(train_hist) - 1 ELSE Len(train_hist)

LossImproving == {i \in 1..LossesChecked : train_hist[i].loss < MinLoss(i - 1)}

C7_State ==
    (prog = "train" /\ pc # "prepare" /\ fault # "KeyError") =>
        /\ best_loss = MinLoss(LossesChecked)
        /\ \A i \in 1..LossesChecked : best_loss <= train_hist[i].loss
        /\ best_loss <= BestLossInit
        /\ (pc \in {"loop", "done"} => LossesChecked = Len(train_hist))
        /\ LET saves == SavesOf(save_calls, "best_loss")
               imp == Ascending(LossImproving) IN
              /\ Len(saves) = Len(imp)
              /\ \A k \in DOMAIN saves :
                    /\ saves[k].epoch = train_hist[imp[k]].epoch
                    /\ saves[k].model = train_hist[imp[k]].epoch
        /\ ExpectedFile("best_loss") \in DOMAIN files =>
              LET first == CHOOSE i \in 1..LossesChecked :
                              /\ train_hist[i].loss = best_loss
                              /\ \A j \in 1..(i - 1) : train_hist[j].loss # best_loss
              IN files[ExpectedFile("best_loss")] = ExpectedContent(train_hist[first].epoch)

C7_Step ==
    (prog = "train" /\ pc # "prepare" /\ fault # "KeyError") => best_loss' <= best_loss

\* C7: once an epoch's loss was compared, best_loss is the minimum of 1e8 and
\* the mean training losses so far (all of them at the end of an epoch); it
\* never increases; 'best_loss' is saved exactly in the epochs whose loss is
\* strictly below the best before, so the 'best_loss' file holds the model of
\* the earliest epoch that attains the minimum loss.
C7_BestLoss == [](C7_State) /\ [][C7_Step]_vars

C7_Witness ==
    /\ prog = "train" /\ pc = "done" /\ Len(train_hist) = 2
    /\ train_hist[1].loss = train_hist[2].loss
    /\ files[ExpectedFile("best_loss")] = ExpectedContent(1)

NameRank(name) ==
    CASE name = "last" -> 1 [] name = "best_loss" -> 2 [] name = "best" -> 3

C8_State ==
    prog = "train" =>
        LET nT == Len(train_hist)
            nS == sched_steps
            nR == Len(RunRows)
            nL == Len(SavesOf(save_calls, "last"))
        IN
        /\ (pc = "sched" => nT = nS + 1 /\ nS = nR /\ nR = nL)
        /\ (pc = "log" => nT = nS /\ nS = nR + 1 /\ nR = nL)
        /\ (pc = "save_last" => nT = nS /\ nS = nR /\ nR = nL + 1)
        /\ (pc \notin {"sched", "log", "save_last"} => nT = nS /\ nS = nR /\ nR = nL)
        /\ (nL = nR \/ nL = nR - 1)
        /\ \A i, j \in DOMAIN save_calls :
              i < j =>
                 \/ save_calls[i].epoch < save_calls[j].epoch
                 \/ /\ save_calls[i].epoch = save_calls[j].epoch
                    /\ NameRank(save_calls[i].name) < NameRank(save_calls[j].name)
        /\ \A i \in DOMAIN save_calls :
              /\ save_calls[i].model = save_calls[i].epoch
              /\ save_calls[i].name # "last" =>
                    \E j \in 1..(i - 1) :
                       /\ save_calls[j].name = "last"
                       /\ save_calls[j].epoch = save_calls[i].epoch
        /\ \A i \in DOMAIN val_hist :
              /\ \E j \in DOMAIN save_calls :
                    save_calls[j].name = "last" /\ save_calls[j].epoch = val_hist[i].epoch
              /\ \E j \in 1..nR : RunRows[j][1] = val_hist[i].epoch
        /\ ((pc \in {"loop", "done"} /\ nR > 0) =>
               files[ExpectedFile("last")] = ExpectedContent(RunRows[nR][1]))

\* C8: within an epoch the order is train, scheduler step, row, 'last',
\* 'best_loss', validation and 'best'. So the counts of train() calls,
\* scheduler steps, rows and 'last' saves agree up to the statement in
\* progress, the 'last' saves number the rows of this run or one less, the
\* save() calls are ordered by epoch and then last < best_loss < best, a
\* validated epoch has its row and 'last' checkpoint, and between epochs the
\* 'last' file holds the model of the most recently logged epoch.
C8_StepOrder == C8_State

C8_Witness ==
    /\ prog = "train" /\ pc = "save_last"
    /\ Len(RunRows) = 2 /\ Len(SavesOf(save_calls, "last")) = 1

C9_State ==
    prog = "test" =>
        /\ Len(applied) <= 25
        /\ \A i \in DOMAIN applied :
              /\ applied[i].threshold = 10 * i
              /\ applied[i].fn = applied[1].fn
              /\ applied[i].value = MetricFn(metric_tab, 10 * i)
        /\ (pc \in {"print", "resume", "write", "done"} \/ fault = "KeyError") =>
              /\ Len(applied) = 25
              /\ applied[25].threshold = 250
              /\ metrics = applied[25].value
        /\ (pc \in {"resume", "write", "done"} => printed = applied[25].value)
        /\ (pc = "done" =>
               test_log[Len(test_log)] =
                  <<config.resume, applied[25].value[1], applied[25].value[2],
                    applied[25].value[3], applied[25].value[4]>>)

\* C9: in test.py the metric function is applied once per threshold 10, 20,
\* ..., 250, in increasing order, 25 times, on the same predictions; the four
\* values returned, printed and written to test_log.csv are those computed at
\* threshold 250, whatever the other thresholds gave.
C9_LastThresholdWins == C9_State

C9_Witness ==
    /\ prog = "test" /\ pc = "done"
    /\ metric_tab.cut = 250 /\ metric_tab.lo > metric_tab.hi
    /\ \A i \in 1..24 : applied[i].value # metrics

CeilDiv(a, b) == (a + b - 1) \div b

BatchPre == prog = "batched" /\ config.n >= 1 /\ config.bsize >= 1

C10_State ==
    BatchPre =>
        /\ Cat(preds) = [i \in 1..ql |-> i - 1]
        /\ \A i \in DOMAIN preds :
              /\ 1 <= Len(preds[i]) /\ Len(preds[i]) <= config.bsize
              /\ (i < Len(preds) => Len(preds[i]) = config.bsize)
        /\ ql <= config.n
        /\ Len(preds) <= CeilDiv(config.n, config.bsize)
        /\ pc # "fault"
        /\ (pc = "while" => ENABLED Next)
        /\ (pc = "done" =>
               /\ ql = config.n
               /\ Len(preds) = CeilDiv(config.n, config.bsize)
               /\ pred = [i \in 1..config.n |-> i - 1])

C10_Step ==
    BatchPre =>
        /\ (preds' # preds => (Len(preds') = Len(preds) + 1 /\ ql' > ql))
        /\ (pc = "while" => (ql' > ql \/ pc' = "done"))

\* C10: for n >= 1 and bsize >= 1 batched_predict ends after exactly
\* ceil(n / bsize) query_rgb calls; the slices [ql, qr) are consecutive and
\* disjoint, start at 0 and end at n, each holds 1..bsize indices and all but
\* the last exactly bsize, so that indices 0..n-1 are queried once each, in
\* order; ql strictly increases in every iteration.
C10_BatchedPredict == [](C10_State) /\ [][C10_Step]_vars

C10_Witness ==
    /\ prog = "batched" /\ pc = "done"
    /\ config.n = 5 /\ config.bsize = 2
    /\ Len(preds) = 3 /\ Len(preds[3]) = 1

====
